---- MODULE Spec2Model ----
(***************************************************************************)
(* A model of colorlegend(target, scale, type, options), the one function  *)
(* of src/colorlegend.js.                                                  *)
(*                                                                         *)
(* The state is the document the function works on (the size of each       *)
(* element and the svg nodes appended to it) and a record of the last      *)
(* call: its arguments, its outcome, the values of its local variables and *)
(* the outside calls it made.                                              *)
(*                                                                         *)
(* Numbers that the code divides (boxWidth, the positions derived from it, *)
(* the sample points of a linear scale) are exact rationals <<num, den>>   *)
(* in lowest terms with den > 0; the rounding of IEEE doubles is not       *)
(* modelled.  Strings that the code takes apart (the target) are sequences *)
(* of characters.  An option that is absent and an option that is falsy    *)
(* (0, '', false) are the same thing to `opts.x || default`, and are       *)
(* written 0, "" and FALSE.                                                *)
(***************************************************************************)
EXTENDS Integers, Sequences, FiniteSets, TLC

VARIABLES size, surface, last, ncalls

vars == <<size, surface, last, ncalls>>

(***************************** bounds **************************************)

\* Calls made in one behaviour of Spec.
MaxCalls == 2

\* Largest linearBoxes option, domain length and range length of SpecLayout.
MaxBoxes == 4

(*************************** rationals *************************************)

Abs(n) == IF n < 0 THEN -n ELSE n

RECURSIVE GCD(_, _)
GCD(a, b) == IF b = 0 THEN a ELSE GCD(b, a % b)

\* n/d in lowest terms, d > 0.
Norm(n, d) == LET g == GCD(Abs(n), d) IN IF g = 0 THEN <<0, 1>> ELSE <<n \div g, d \div g>>

R(n) == <<n, 1>>
RAdd(a, b) == Norm(a[1] * b[2] + b[1] * a[2], a[2] * b[2])
RSub(a, b) == Norm(a[1] * b[2] - b[1] * a[2], a[2] * b[2])
RMul(a, b) == Norm(a[1] * b[1], a[2] * b[2])
\* a / k for an integer k > 0.
RDivInt(a, k) == Norm(a[1], a[2] * k)
RLt(a, b) == a[1] * b[2] < b[1] * a[2]
RLe(a, b) == a[1] * b[2] <= b[1] * a[2]

(*************************** characters ************************************)

Hash == "#"

\* target.substring(0, 1)
FirstChar(s) == IF Len(s) = 0 THEN <<>> ELSE <<s[1]>>

\* target.substring(1, target.length)
StripFirst(s) == IF Len(s) = 0 THEN <<>> ELSE SubSeq(s, 2, Len(s))

(*************************** the document **********************************)

\* The elements of the page in document order. 0 stands for "no element".
Elements ==
  << [id |-> <<"e", "l">>,      tag |-> <<"d", "i", "v">>],
     [id |-> <<"p">>,           tag |-> <<"p">>],
     [id |-> <<"d", "i", "v">>, tag |-> <<"s", "p", "a", "n">>] >>

ElementIds == 1..Len(Elements)

NoElement == 0

\* The first in document order of a set of elements.
FirstOf(set) ==
  IF set = {} THEN NoElement
  ELSE CHOOSE e \in set : \A f \in set : e <= f

\* document.getElementById(id)
getElementById(id) == FirstOf({e \in ElementIds : Elements[e].id = id})

\* document.querySelector(selector), which is what d3.select(selector) does:
\* '#x' selects the element of id x, and a bare name selects the first
\* element whose tag is that name.
querySelector(selector) ==
  IF FirstChar(selector) = <<Hash>>
  THEN getElementById(StripFirst(selector))
  ELSE FirstOf({e \in ElementIds : Elements[e].tag = selector})

\* Lines 60-66: the element whose size is measured.
htmlElement(target) ==
  IF FirstChar(target) = <<Hash>>
  THEN getElementById(StripFirst(target))
  ELSE getElementById(target)

(*************************** constants *************************************)

DefaultBoxWidth == 20
DefaultBoxHeight == 20
DefaultLinearBoxes == 9

PadTop == 2
PadRight == 4
PadBottom == 10
PadLeft == 4

OrdinalSpacing == 3
TitlePad == 11
LabelGap == 2

scaleTypes == <<"linear", "quantile", "ordinal">>

(*************************** the function's steps **************************)

\* found, were the scan to accept every type.
foundMut(type) == TRUE

\* Lines 39-45: the scan of scaleTypes.
found(type) == \E i \in 1..Len(scaleTypes) : scaleTypes[i] = type

\* opts.x || d for a number.
OrDefault(v, d) == IF v = 0 THEN d ELSE v

\* Line 72.
boxSpacing(type) == IF type = "ordinal" THEN OrdinalSpacing ELSE 0

\* Line 73. title is "" when the option is absent or empty.
titlePadding(title) == IF title # "" THEN TitlePad ELSE 0

\* A color: an entry of the range, the scale applied to a point, or
\* undefined (an index past the end of the range).
RangeColor(c) == [src |-> "range", at |-> R(c)]
ScaleColor(x) == [src |-> "scale", at |-> x]
Undefined == [src |-> "undefined", at |-> R(0)]

\* samplePoint, were the points offset from min.
samplePointMut(i, min, max, linearBoxes) ==
  RAdd(R(min), RMul(R(i), RDivInt(R(max - min), linearBoxes)))

\* Line 93: the point the scale is applied to for box i (from 0).
samplePoint(i, min, max, linearBoxes) == RMul(R(i), RDivInt(R(max - min), linearBoxes))

\* colorsOf, were every type to take the range as quantile does.
colorsMut(scale, type, linearBoxes) ==
  [i \in 1..Len(scale.range) |-> RangeColor(scale.range[i])]

\* Lines 79-95: the colors, one for each box.
colorsOf(scale, type, linearBoxes) ==
  LET domain == scale.domain
      range == scale.range
  IN CASE type = "quantile" -> [i \in 1..Len(range) |-> RangeColor(range[i])]
       [] type = "ordinal" ->
            [i \in 1..Len(domain) |->
               IF i <= Len(range) THEN RangeColor(range[i]) ELSE Undefined]
       [] type = "linear" ->
            LET min == domain[1]
                max == domain[Len(domain)]
            IN [i \in 1..linearBoxes |->
                  ScaleColor(samplePoint(i - 1, min, max, linearBoxes))]
       [] OTHER -> <<>>

\* fitWidth, were fill not read.
fitWidthIgnoresFill(fill, w, boxWidth, spacing, n) ==
  IF w < (boxWidth + spacing) * n + PadRight + PadLeft
  THEN RDivInt(R(w - PadRight - PadLeft - spacing * n), n)
  ELSE R(boxWidth)

\* fitWidth, were the width always fitted to the target.
fitWidthMut(fill, w, boxWidth, spacing, n) ==
  RDivInt(R(w - PadRight - PadLeft - spacing * n), n)

\* Lines 99-101: the width of a box.
fitWidth(fill, w, boxWidth, spacing, n) ==
  IF fill \/ w < (boxWidth + spacing) * n + PadRight + PadLeft
  THEN RDivInt(R(w - PadRight - PadLeft - spacing * n), n)
  ELSE R(boxWidth)

\* fitHeight, were the height always fitted to the target.
fitHeightMut(fill, h, boxHeight, titlePad) ==
  R(h - PadTop - PadBottom - titlePad)

\* Lines 102-104: the height of a box.
fitHeight(fill, h, boxHeight, titlePad) ==
  IF fill \/ h < boxHeight + PadTop + PadBottom + titlePad
  THEN R(h - PadTop - PadBottom - titlePad)
  ELSE R(boxHeight)

\* labelText, were the last box tested before the first.
labelTextMut(type, domain, i, n) ==
  IF type = "ordinal" THEN (IF i + 1 <= Len(domain) THEN <<domain[i + 1]>> ELSE <<>>)
  ELSE IF i = n - 1 THEN <<domain[Len(domain)]>>
  ELSE IF i = 0 THEN <<domain[1]>>
  ELSE <<>>

\* Lines 135-147: the text of the label of box i (from 0), <<>> when the
\* callback returns undefined.
labelText(type, domain, i, n) ==
  IF type = "ordinal" THEN (IF i + 1 <= Len(domain) THEN <<domain[i + 1]>> ELSE <<>>)
  ELSE IF i = 0 THEN <<domain[1]>>
  ELSE IF i = n - 1 THEN <<domain[Len(domain)]>>
  ELSE <<>>

NoRect == [x |-> R(0), width |-> R(0), height |-> R(0), fill |-> Undefined]

\* Lines 117-157: the g appended for color i (from 0), holding a text and
\* a rect.
boxNode(type, domain, colors, i, boxWidth, boxHeight) ==
  LET sp == R(boxSpacing(type))
      left == RMul(R(i), RAdd(boxWidth, sp))
  IN [kind |-> "box",
      x |-> RAdd(left, IF type # "ordinal" THEN RDivInt(boxWidth, 2) ELSE R(0)),
      y |-> RAdd(boxHeight, R(LabelGap)),
      anchor |-> IF type = "ordinal" THEN "start" ELSE "middle",
      text |-> labelText(type, domain, i, Len(colors)),
      title |-> "",
      rect |-> [x |-> left, width |-> boxWidth, height |-> boxHeight,
                fill |-> colors[i + 1]]]

\* titleNode, were the title put at the right edge and on the labels' line.
titleNodeMut(title, n, boxWidth, boxHeight, titlePad) ==
  [kind |-> "title",
   x |-> RMul(R(n), boxWidth),
   y |-> RAdd(boxHeight, R(LabelGap)),
   anchor |-> "middle", text |-> <<>>, title |-> title, rect |-> NoRect]

\* Lines 160-169: the title text.
titleNode(title, n, boxWidth, boxHeight, titlePad) ==
  [kind |-> "title",
   x |-> RMul(R(n), RDivInt(boxWidth, 2)),
   y |-> RAdd(boxHeight, R(titlePad)),
   anchor |-> "middle", text |-> <<>>, title |-> title, rect |-> NoRect]

\* Lines 107-169: the svg with its g.colorlegend, whose children are the
\* boxes in the order of colors, then the title if there is one.
legendChildren(type, domain, colors, title, boxWidth, boxHeight, titlePad) ==
  [k \in 1..Len(colors) |-> boxNode(type, domain, colors, k - 1, boxWidth, boxHeight)]
  \o (IF title # "" THEN <<titleNode(title, Len(colors), boxWidth, boxHeight, titlePad)>> ELSE <<>>)

svgNode(w, h, children) ==
  [width |-> w, height |-> h, tx |-> PadLeft, ty |-> PadTop, children |-> children]

\* selection.append on d3.select(target): a selection that holds no element
\* appends nothing.
appendSvg(surf, e, svg) ==
  IF e = NoElement THEN surf ELSE [surf EXCEPT ![e] = Append(@, svg)]

(*************************** the call **************************************)

NoCall ==
  [target |-> <<>>, type |-> "", scale |-> [domain |-> <<>>, range |-> <<>>],
   options |-> [boxWidth |-> 0, boxHeight |-> 0, title |-> "", fill |-> FALSE,
                linearBoxes |-> 0],
   outcome |-> "none", trace |-> <<>>, measured |-> NoElement,
   selected |-> NoElement, w |-> 0, h |-> 0, colors |-> <<>>,
   boxWidth |-> R(0), boxHeight |-> R(0)]

Call(target, scale, type, options) ==
  [NoCall EXCEPT !.target = target, !.type = type, !.scale = scale,
                 !.options = options]

\* What the call leaves behind: the record of the call and the surfaces.
Result(target, scale, type, options) ==
  LET call == Call(target, scale, type, options) IN
  IF ~found(type)
  THEN [last |-> [call EXCEPT !.outcome = "UnsupportedScaleType"],
        surface |-> surface]
  ELSE
  LET boxWidth0 == OrDefault(options.boxWidth, DefaultBoxWidth)
      boxHeight0 == OrDefault(options.boxHeight, DefaultBoxHeight)
      title == options.title
      fill == options.fill
      linearBoxes == OrDefault(options.linearBoxes, DefaultLinearBoxes)
      el == htmlElement(target)
  IN
  IF el = NoElement
  THEN \* line 67: null has no offsetWidth
       [last |-> [call EXCEPT !.outcome = "TypeError",
                              !.trace = <<"getElementById">>],
        surface |-> surface]
  ELSE
  LET w == size[el].w
      h == size[el].h
      titlePad == titlePadding(title)
      colors == colorsOf(scale, type, linearBoxes)
      boxWidth == fitWidth(fill, w, boxWidth0, boxSpacing(type), Len(colors))
      boxHeight == fitHeight(fill, h, boxHeight0, titlePad)
      sel == querySelector(target)
      svg == svgNode(w, h, legendChildren(type, scale.domain, colors, title,
                                          boxWidth, boxHeight, titlePad))
  IN [last |-> [call EXCEPT
                  !.outcome = "ok",
                  !.trace = <<"getElementById", "domain", "range", "select">>
                            \o (IF sel = NoElement THEN <<>> ELSE <<"append">>),
                  !.measured = el, !.selected = sel, !.w = w, !.h = h,
                  !.colors = colors, !.boxWidth = boxWidth,
                  !.boxHeight = boxHeight],
      surface |-> appendSvg(surface, sel, svg)]

colorlegend(target, scale, type, options) ==
  LET r == Result(target, scale, type, options) IN
  /\ last' = r.last
  /\ surface' = r.surface
  /\ ncalls' = ncalls + 1
  /\ UNCHANGED size

(*************************** inputs ****************************************)

TargetEl == <<"#", "e", "l">>

Targets ==
  { TargetEl, <<"e", "l">>, <<"p">>, <<"d", "i", "v">>, <<"#", "n", "o">> }

Types == {"linear", "quantile", "ordinal", "quantize"}

NoOptions ==
  [boxWidth |-> 0, boxHeight |-> 0, title |-> "", fill |-> FALSE, linearBoxes |-> 0]

\* Spec: a page of three elements of fixed sizes, a few scales and options.
PageSize ==
  <<[w |-> 200, h |-> 40], [w |-> 60, h |-> 30], [w |-> 100, h |-> 50]>>

PageScales ==
  { [domain |-> <<0, 100>>, range |-> <<1, 2>>],
    [domain |-> <<1, 2, 3>>, range |-> <<1, 2, 3>>] }

PageOptions ==
  { NoOptions,
    [NoOptions EXCEPT !.title = "T", !.fill = TRUE, !.linearBoxes = 2] }

Init ==
  /\ size = PageSize
  /\ surface = [e \in ElementIds |-> <<>>]
  /\ last = NoCall
  /\ ncalls = 0

Next ==
  /\ ncalls < MaxCalls
  /\ \E target \in Targets, scale \in PageScales, type \in Types,
        options \in PageOptions :
       colorlegend(target, scale, type, options)

Spec == Init /\ [][Next]_vars

\* SpecLayout: one call on #el, over many sizes, scales and options.
Widths == {40, 100, 200}
Heights == {25, 60}

LayoutDomains ==
  { <<10>> } \cup
  { [i \in 1..n |-> base + (i - 1) * 100] : n \in 2..MaxBoxes, base \in {-100, 0, 10} }

LayoutScales ==
  { [domain |-> d, range |-> [i \in 1..m |-> i]] :
    d \in LayoutDomains, m \in 1..MaxBoxes }

LayoutOptions ==
  [boxWidth : {0, 10, 30}, boxHeight : {0, 30}, title : {"", "T"},
   fill : BOOLEAN, linearBoxes : 0..MaxBoxes]

InitLayout ==
  /\ size \in [ElementIds -> [w : Widths, h : Heights]]
  /\ \A e \in ElementIds : size[e] = size[1]
  /\ surface = [e \in ElementIds |-> <<>>]
  /\ last = NoCall
  /\ ncalls = 0

NextLayout ==
  /\ ncalls = 0
  /\ \E scale \in LayoutScales, type \in Types, options \in LayoutOptions :
       colorlegend(TargetEl, scale, type, options)

SpecLayout == InitLayout /\ [][NextLayout]_vars

(*************************** what the claims read **************************)

Supported == {"linear", "quantile", "ordinal"}

Ok == last.outcome = "ok"

\* The legend the last call appended, when it appended one.
Rendered == Ok /\ last.selected # NoElement

LastSvg == surface[last.selected][Len(surface[last.selected])]

IsBox(node) == node.kind = "box"
IsTitle(node) == node.kind = "title"

LastBoxes == SelectSeq(LastSvg.children, IsBox)
LastTitles == SelectSeq(LastSvg.children, IsTitle)

TotalNodes(surf) == Len(surf[1]) + Len(surf[2]) + Len(surf[3])

\* The box width and height the call asked for, and its spacing and title
\* padding, written out in numbers.
AskedWidth == IF last.options.boxWidth = 0 THEN 20 ELSE last.options.boxWidth
AskedHeight == IF last.options.boxHeight = 0 THEN 20 ELSE last.options.boxHeight
Gap == IF last.type = "ordinal" THEN 3 ELSE 0
UnderTitle == IF last.options.title = "" THEN 0 ELSE 11
Count == Len(last.colors)
Domain == last.scale.domain

\* From the left edge of the first box to the right edge of the last one.
RowWidth ==
  RSub(RAdd(LastBoxes[Count].rect.x, LastBoxes[Count].rect.width),
       LastBoxes[1].rect.x)

(*************************** C1 ********************************************)

\* C1: a call whose type is not linear, quantile or ordinal raises the
\* unsupported-scale-type error without having looked up the target, read
\* the scale or appended a node, and leaves every surface as it was,
\* whatever the other arguments and whatever calls came before.
C1_UnsupportedTypeRaisesFirst ==
  [][(ncalls' = ncalls + 1 /\ last'.type \notin Supported)
       => /\ last'.outcome = "UnsupportedScaleType"
          /\ last'.trace = <<>>
          /\ surface' = surface
          /\ size' = size]_vars

\* An unsupported type on a target that does not exist, after a call that
\* rendered a legend.
C1_Witness ==
  /\ ncalls = 2
  /\ last.type = "quantize"
  /\ last.target = <<"#", "n", "o">>
  /\ last.outcome = "UnsupportedScaleType"
  /\ TotalNodes(surface) = 1

(*************************** C2 ********************************************)

C3_LabelsAsClaimed ==
  Rendered =>
    \A k \in 1..Len(LastBoxes) :
      LET text == LastBoxes[k].text IN
      IF last.type = "ordinal" THEN text = <<Domain[k]>>
      ELSE /\ k = 1 => text = <<Domain[1]>>
           /\ k = Len(LastBoxes) => text = <<Domain[Len(Domain)]>>
           /\ (k # 1 /\ k # Len(LastBoxes)) => text = <<>>

\* C3 amended: ordinal boxes carry domain[i]; otherwise the first box
\* carries domain[0], the last box carries the last domain value when it is
\* not also the first, and the others nothing. The only box of a legend of
\* one box carries domain[0].
C3_Labels ==
  Rendered =>
    \A k \in 1..Len(LastBoxes) :
      LET text == LastBoxes[k].text IN
      IF last.type = "ordinal" THEN text = <<Domain[k]>>
      ELSE /\ k = 1 => text = <<Domain[1]>>
           /\ (k = Len(LastBoxes) /\ k # 1) => text = <<Domain[Len(Domain)]>>
           /\ (k # 1 /\ k # Len(LastBoxes)) => text = <<>>

\* A quantile legend of one box over a domain of three values: the box
\* carries the first value, which is not the last.
C3_Witness ==
  /\ Rendered
  /\ last.type = "quantile"
  /\ Len(LastBoxes) = 1
  /\ Len(Domain) = 3
  /\ LastBoxes[1].text = <<Domain[1]>>
  /\ Domain[1] # Domain[3]

(*************************** C4 ********************************************)

\* C4 as claimed: with fill, for every type, the row of boxes is
\* targetWidth - 8 wide and the boxes are targetHeight - 12 - titlePad high.
C4_FillAsClaimed ==
  (Rendered /\ last.options.fill) =>
    /\ RowWidth = R(last.w - 8)
    /\ \A k \in 1..Count : LastBoxes[k].rect.height = R(last.h - 12 - UnderTitle)

\* C4 amended: with fill, the boxes with the spacing that follows each of
\* them take targetWidth - 8, so that the row of boxes is targetWidth - 8
\* wide for linear and quantile and targetWidth - 11 wide for ordinal; the
\* boxes are targetHeight - 12 - titlePad high.
C4_Fill ==
  (Rendered /\ last.options.fill) =>
    /\ RMul(R(Count), RAdd(last.boxWidth, R(Gap))) = R(last.w - 8)
    /\ RowWidth = R(last.w - 8 - Gap)
    /\ \A k \in 1..Count :
         /\ LastBoxes[k].rect.width = last.boxWidth
         /\ LastBoxes[k].rect.height = R(last.h - 12 - UnderTitle)

\* An ordinal legend of three boxes with fill and a title, on a target
\* wide enough for the boxes asked for.
C4_Witness ==
  /\ Rendered
  /\ last.options.fill
  /\ last.type = "ordinal"
  /\ Count = 3
  /\ last.options.title # ""
  /\ last.w >= (AskedWidth + 3) * 3 + 8
  /\ RowWidth = R(last.w - 11)

(*************************** C5 ********************************************)

\* C5: without fill, the box width asked for is kept when
\* (boxWidth + spacing) * count + 8 <= targetWidth, and otherwise becomes
\* the width for which (boxWidth + spacing) * count + 8 = targetWidth; the
\* box height asked for is kept when boxHeight + 12 + titlePad <=
\* targetHeight, and otherwise becomes targetHeight - 12 - titlePad. Neither
\* decision reads the other, and the height does not read the count.
C5_Fit ==
  (Ok /\ ~last.options.fill) =>
    /\ IF (AskedWidth + Gap) * Count + 8 <= last.w
       THEN last.boxWidth = R(AskedWidth)
       ELSE /\ RAdd(RMul(RAdd(last.boxWidth, R(Gap)), R(Count)), R(8)) = R(last.w)
            /\ RLt(last.boxWidth, R(AskedWidth))
    /\ IF AskedHeight + 12 + UnderTitle <= last.h
       THEN last.boxHeight = R(AskedHeight)
       ELSE /\ last.boxHeight = R(last.h - 12 - UnderTitle)
            /\ RLt(last.boxHeight, R(AskedHeight))
    /\ Rendered =>
         \A k \in 1..Count :
           /\ LastBoxes[k].rect.width = last.boxWidth
           /\ LastBoxes[k].rect.height = last.boxHeight

\* Without fill, a width that had to shrink beside a height that was kept.
C5_Witness ==
  /\ Rendered
  /\ ~last.options.fill
  /\ (AskedWidth + Gap) * Count + 8 > last.w
  /\ AskedHeight + 12 + UnderTitle <= last.h
  /\ RLt(last.boxWidth, R(AskedWidth))
  /\ last.boxHeight = R(AskedHeight)

(*************************** C6 ********************************************)

\* C6 as claimed: whatever the options, no box is wider than the boxWidth
\* asked for or higher than the boxHeight asked for.
C6_MaximaAsClaimed ==
  Rendered =>
    \A k \in 1..Count :
      /\ RLe(LastBoxes[k].rect.width, R(AskedWidth))
      /\ RLe(LastBoxes[k].rect.height, R(AskedHeight))

\* C6 amended: when fill is not set, no box is wider than the boxWidth
\* asked for or higher than the boxHeight asked for.
C6_Maxima ==
  (Rendered /\ ~last.options.fill) =>
    \A k \in 1..Count :
      /\ RLe(LastBoxes[k].rect.width, R(AskedWidth))
      /\ RLe(LastBoxes[k].rect.height, R(AskedHeight))

\* Without fill, on a target with room to spare in both directions, the
\* boxes have the size asked for.
C6_Witness ==
  /\ Rendered
  /\ ~last.options.fill
  /\ last.options.boxWidth = 10
  /\ last.options.boxHeight = 30
  /\ last.w > (10 + Gap) * Count + 8
  /\ last.h > 30 + 12 + UnderTitle
  /\ LastBoxes[1].rect.width = R(10)
  /\ LastBoxes[1].rect.height = R(30)

(*************************** C7 ********************************************)

SameArguments(a, b) ==
  /\ a.target = b.target
  /\ a.scale = b.scale
  /\ a.type = b.type
  /\ a.options = b.options

Top(nodes) == nodes[Len(nodes)]

\* C7: every successful call appends exactly one legend, leaves every node
\* that was there as it was, and after a successful call with the same
\* arguments appends a legend equal to the one that call appended.
C7_AdditiveRepeatable ==
  [][(ncalls' = ncalls + 1 /\ last'.outcome = "ok")
       => /\ TotalNodes(surface') = TotalNodes(surface) + 1
          /\ \A e \in ElementIds :
               /\ Len(surface'[e]) >= Len(surface[e])
               /\ SubSeq(surface'[e], 1, Len(surface[e])) = surface[e]
          /\ (last.outcome = "ok" /\ SameArguments(last, last'))
               => Top(surface'[last'.selected]) = Top(surface[last.selected])]_vars

\* The same statement for the targets that start with '#', which is where
\* it holds.
C7_AdditiveRepeatableForHashTargets ==
  [][(ncalls' = ncalls + 1 /\ last'.outcome = "ok" /\ last'.target[1] = "#"
      /\ (last.outcome = "ok" => last.target[1] = "#"))
       => /\ TotalNodes(surface') = TotalNodes(surface) + 1
          /\ \A e \in ElementIds :
               /\ Len(surface'[e]) >= Len(surface[e])
               /\ SubSeq(surface'[e], 1, Len(surface[e])) = surface[e]
          /\ (last.outcome = "ok" /\ SameArguments(last, last'))
               => Top(surface'[last'.selected]) = Top(surface[last.selected])]_vars

(*************************** C8 ********************************************)

LinearBoxes ==
  IF last.options.linearBoxes = 0 THEN 9 ELSE last.options.linearBoxes

Span == Domain[Len(Domain)] - Domain[1]

\* x = i * (max - min) / linearBoxes, without dividing.
IsSample(x, i) == x[1] * LinearBoxes = i * Span * x[2]

IsPoint(x, v) == x[1] = v * x[2]

\* C8 as claimed: the color of box i of a linear legend is the scale at
\* i * (max - min) / linearBoxes, a point that is never max; for the domain
\* [0, 100] and 4 boxes the points are 0, 25, 50 and 75.
C8_SamplesAsClaimed ==
  (Ok /\ last.type = "linear") =>
    /\ Count = LinearBoxes
    /\ \A i \in 0..(LinearBoxes - 1) :
         /\ last.colors[i + 1].src = "scale"
         /\ IsSample(last.colors[i + 1].at, i)
         /\ ~IsPoint(last.colors[i + 1].at, Domain[Len(Domain)])
         /\ Rendered => LastBoxes[i + 1].rect.fill = last.colors[i + 1]
    /\ (Domain = <<0, 100>> /\ LinearBoxes = 4)
         => [i \in 1..4 |-> last.colors[i].at] = <<R(0), R(25), R(50), R(75)>>

\* C8 amended: the color of box i of a linear legend is the scale at
\* i * (max - min) / linearBoxes, a point that is never max when
\* 0 <= min < max; for the domain [0, 100] and 4 boxes the points are 0, 25,
\* 50 and 75.
C8_Samples ==
  (Ok /\ last.type = "linear") =>
    /\ Count = LinearBoxes
    /\ \A i \in 0..(LinearBoxes - 1) :
         /\ last.colors[i + 1].src = "scale"
         /\ IsSample(last.colors[i + 1].at, i)
         /\ (0 <= Domain[1] /\ Domain[1] < Domain[Len(Domain)])
              => ~IsPoint(last.colors[i + 1].at, Domain[Len(Domain)])
         /\ Rendered => LastBoxes[i + 1].rect.fill = last.colors[i + 1]
    /\ (Domain = <<0, 100>> /\ LinearBoxes = 4)
         => [i \in 1..4 |-> last.colors[i].at] = <<R(0), R(25), R(50), R(75)>>

\* The legend of the domain [0, 100] in 4 boxes.
C8_Witness ==
  /\ Rendered
  /\ last.type = "linear"
  /\ Domain = <<0, 100>>
  /\ last.options.linearBoxes = 4
  /\ [i \in 1..4 |-> LastBoxes[i].rect.fill.at] = <<R(0), R(25), R(50), R(75)>>

(*************************** C9 ********************************************)

\* C9: the target is resolved by the id after a leading '#', or by the
\* whole string as an id when there is none, and the element that is
\* measured is the element the legend is appended to.
C9_MeasuredIsAppendedTo ==
  Ok =>
    /\ Elements[last.measured].id =
         (IF last.target[1] = "#" THEN Tail(last.target) ELSE last.target)
    /\ last.selected = last.measured

(*************************** C10 *******************************************)

\* C10: with a title, the legend ends with exactly one title text, after
\* all the boxes, anchored in the middle at x = count * boxWidth / 2 and
\* y = boxHeight + 11, below the labels at y = boxHeight + 2; without one
\* there is no title text and no title padding.
C10_Title ==
  Rendered =>
    LET kids == LastSvg.children IN
    /\ \A k \in 1..Count : IsBox(kids[k]) /\ kids[k].y = RAdd(last.boxHeight, R(2))
    /\ IF last.options.title # ""
       THEN /\ Len(kids) = Count + 1
            /\ IsTitle(kids[Count + 1])
            /\ kids[Count + 1].title = last.options.title
            /\ kids[Count + 1].anchor = "middle"
            /\ RMul(kids[Count + 1].x, R(2)) = RMul(R(Count), last.boxWidth)
            /\ kids[Count + 1].y = RAdd(last.boxHeight, R(11))
            /\ \A k \in 1..Count : RLt(kids[k].y, kids[Count + 1].y)
            /\ last.options.fill => last.boxHeight = R(last.h - 12 - 11)
       ELSE /\ Len(kids) = Count
            /\ last.options.fill => last.boxHeight = R(last.h - 12)

\* A titled legend of three boxes whose width was fitted to the target.
C10_Witness ==
  /\ Rendered
  /\ last.options.title = "T"
  /\ Count = 3
  /\ last.boxWidth # R(AskedWidth)
  /\ Len(LastTitles) = 1
  /\ Top(LastSvg.children).kind = "title"

====
